---- MODULE Spec2Model ----
(***************************************************************************)
(* AstraGPT (src/main.py): the date-seeded key derivation                  *)
(* KeyGenerator.generate_keys, the key prompt CLIInterface.prompt_for_key, *)
(* and the conversation history kept by AstraGPTClient.chat under the      *)
(* loop of main.                                                           *)
(*                                                                         *)
(* Modelling conventions                                                   *)
(*  - Python ints are unbounded.  An int is a little-endian sequence of    *)
(*    base-10000 limbs without leading zero limbs (<<>> is 0); a           *)
(*    difference carries its sign.                                         *)
(*  - str(int) is the decimal numeral, s.encode() is the identity on the   *)
(*    ASCII strings that occur, and strings are TLA+ strings joined by \o. *)
(*  - hashlib.sha256(s).hexdigest() is an ideal hash: the free term        *)
(*    "sha256(" \o s \o ")".  Two digests are equal exactly when their     *)
(*    preimages are (no collisions).                                       *)
(*  - A double-precision result that the program rounds to an int          *)
(*    (round(x ** 0.8), ...) depends on libm's pow and on IEEE rounding;   *)
(*    it is a deterministic function of the exact ints it is computed      *)
(*    from.  The model keeps those ints exactly and keeps the function     *)
(*    as a term over them, together with its sign, which is what decides   *)
(*    whether Python raises.  No property below rests on two such terms    *)
(*    being different.                                                     *)
(***************************************************************************)
EXTENDS Integers, Sequences, FiniteSets, TLC

(***************************************************************************)
(* State                                                                   *)
(***************************************************************************)
VARIABLES
    clock,          \* the host's local date, read by datetime.date.today()
    days,           \* local midnights passed since the start
    \* direct calls of generate_keys
    call,           \* the last call: its mode, the date it read, whether the
                    \* mode was called before on that date, and its return
    locals,         \* the locals of the last call
    first,          \* per mode, the first call on the current date
    issued,         \* the first normal call on the previous date
    \* CLIInterface.prompt_for_key
    pc,             \* the line prompt_for_key is at
    user_key,
    normal_keys,
    shared_key,
    normal_today,   \* the date the call of line 137 read
    shared_today,   \* the date the call of line 138 read
    tier,           \* the outcome of the last comparison
    model_type,     \* what prompt_for_key returned
    \* AstraGPTClient under the loop of main
    history,
    chat_pc,        \* where main's loop is
    response,       \* the chunks the stream has not yet delivered
    collected_chunks,
    before,         \* the history when the last chat call began
    outcome,        \* how the last chat call ended
    turns           \* chat calls made

deriveVars == <<call, locals, first, issued>>
promptVars == <<pc, user_key, normal_keys, shared_key, normal_today,
                shared_today, tier, model_type>>
chatVars == <<history, chat_pc, response, collected_chunks, before, outcome,
              turns>>
vars == <<clock, days, deriveVars, promptVars, chatVars>>

(***************************************************************************)
(* Python int: unbounded naturals as sequences of base-10000 limbs         *)
(***************************************************************************)
DigitChar == <<"0", "1", "2", "3", "4", "5", "6", "7", "8", "9">>

\* the host int n >= 0 as a Python int
RECURSIVE Big(_)
Big(n) == IF n = 0 THEN <<>> ELSE <<n % 10000>> \o Big(n \div 10000)

\* a * k + c for a Python int a and host naturals k, c
RECURSIVE MulAdd(_, _, _)
MulAdd(a, k, c) ==
    IF a = <<>> \/ k = 0
    THEN Big(c)
    ELSE LET t == a[1] * k + c
         IN  <<t % 10000>> \o MulAdd(Tail(a), k, t \div 10000)

\* drop leading zero limbs (the most significant limb is last)
RECURSIVE Norm(_)
Norm(a) ==
    IF a = <<>> THEN <<>>
    ELSE IF a[Len(a)] = 0 THEN Norm(SubSeq(a, 1, Len(a) - 1))
    ELSE a

\* a + b + c for a carry c
RECURSIVE AddC(_, _, _)
AddC(a, b, c) ==
    IF a = <<>> THEN MulAdd(b, 1, c)
    ELSE IF b = <<>> THEN MulAdd(a, 1, c)
    ELSE LET t == a[1] + b[1] + c
         IN  <<t % 10000>> \o AddC(Tail(a), Tail(b), t \div 10000)

Add(a, b) == AddC(a, b, 0)

\* sign of a - b: -1, 0 or 1
RECURSIVE CmpFrom(_, _, _)
CmpFrom(a, b, i) ==
    IF i = 0 THEN 0
    ELSE IF a[i] > b[i] THEN 1
    ELSE IF a[i] < b[i] THEN -1
    ELSE CmpFrom(a, b, i - 1)

Cmp(a, b) ==
    IF Len(a) > Len(b) THEN 1
    ELSE IF Len(a) < Len(b) THEN -1
    ELSE CmpFrom(a, b, Len(a))

\* a - b for a >= b, before normalisation
RECURSIVE SubB(_, _, _)
SubB(a, b, borrow) ==
    IF a = <<>>
    THEN <<>>
    ELSE LET y == (IF b = <<>> THEN 0 ELSE b[1]) + borrow
             t == a[1] - y
         IN  <<IF t < 0 THEN t + 10000 ELSE t>>
                 \o SubB(Tail(a), IF b = <<>> THEN b ELSE Tail(b),
                         IF t < 0 THEN 1 ELSE 0)

Sub(a, b) == Norm(SubB(a, b, 0))

\* a * base ** e for a host natural base and a natural exponent e
RECURSIVE MulPow(_, _, _)
MulPow(a, base, e) ==
    IF e = 0 THEN a ELSE MulPow(MulAdd(a, base, 0), base, e - 1)

\* base ** e, an int, for naturals base and e
IntPow(base, e) == MulPow(Big(1), base, e)

\* the decimal numeral of a host natural n > 0, "" for 0
RECURSIVE Numeral(_)
Numeral(n) ==
    IF n = 0 THEN "" ELSE Numeral(n \div 10) \o DigitChar[(n % 10) + 1]

\* the four decimal digits of a limb
Limb4(l) ==
    DigitChar[(l \div 1000) + 1] \o DigitChar[((l \div 100) % 10) + 1]
        \o DigitChar[((l \div 10) % 10) + 1] \o DigitChar[(l % 10) + 1]

RECURSIVE StrLimbs(_, _)
StrLimbs(a, i) == IF i = 0 THEN "" ELSE Limb4(a[i]) \o StrLimbs(a, i - 1)

\* str(a): the canonical decimal numeral, without leading zeros
Str(a) ==
    IF a = <<>> THEN "0"
    ELSE Numeral(a[Len(a)]) \o StrLimbs(a, Len(a) - 1)

\* the number of decimal digits of a, 0 for 0
NumDigits(a) ==
    IF a = <<>> THEN 0 ELSE 4 * (Len(a) - 1) + Len(Numeral(a[Len(a)]))

(***************************************************************************)
(* hashlib.sha256(...).hexdigest()                                         *)
(***************************************************************************)
Sha256Hex(s) == "sha256(" \o s \o ")"

(***************************************************************************)
(* Python arithmetic used by generate_keys                                 *)
(***************************************************************************)
\* round(n / d) for naturals n and d > 0: round-half-to-even, as the
\* builtin round does on the double n / d.  The quotients the program
\* rounds (day / 2.5, day / 2) are multiples of 0.1, so the double is
\* rounded like the exact quotient.
RoundHalfEven(n, d) ==
    LET q == n \div d
        r == n % d
    IN  IF 2 * r < d THEN q
        ELSE IF 2 * r > d THEN q + 1
        ELSE IF q % 2 = 0 THEN q ELSE q + 1

\* round(day % 3 + 0.5 ** (day ** 0.6)).  day ** 0.6 is 0.0 for day 0,
\* exactly 1.0 for day 1 and above 1.5 from day 2 on, so the added power
\* of 0.5 is 1, exactly 0.5 (a tie, rounded to even), or below 0.36.
RoundHalfPow(day) ==
    IF day = 0 THEN (day % 3) + 1
    ELSE IF day = 1 THEN RoundHalfEven(2 * (day % 3) + 1, 2)
    ELSE day % 3

\* a signed Python int: the difference a - b of two naturals
IntSub(a, b) ==
    IF Cmp(a, b) >= 0
    THEN [neg |-> FALSE, mag |-> Sub(a, b)]
    ELSE [neg |-> TRUE, mag |-> Sub(b, a)]

\* a * n for a natural a and a host int n
IntMul(a, n) ==
    LET m == MulAdd(a, IF n < 0 THEN -n ELSE n, 0)
    IN  [neg |-> n < 0 /\ m # <<>>, mag |-> m]

StrInt(z) == (IF z.neg THEN "-" ELSE "") \o Str(z.mag)

IsPositive(z) == ~z.neg /\ z.mag # <<>>

\* int -> float conversion raises OverflowError from 2 ** 1024 on; an int
\* of at most 308 digits is below 1e308 and converts.
FloatOK(a) == NumDigits(a) <= 308

(***************************************************************************)
(* KeyGenerator.generate_keys                                              *)
(***************************************************************************)
\* raw_seed: computed and hashed, never read
raw_seed(today) ==
    MulPow(MulPow(Big(today.month * today.month), today.year, today.day),
           2, today.day)

\* round(day / 2.5), the exponent of month
ExpMonth(day) == RoundHalfEven(10 * day, 25)

\* round(day / 2) + round(day % 3 + 0.5 ** (day ** 0.6)), the exponent of day
ExpDay(day) == RoundHalfEven(day, 2) + RoundHalfPow(day)

\* line 42 without its last term, the power of day
key0_raw_without_day(today) ==
    Add(Big(2 * today.year),
        MulAdd(IntPow(today.month, ExpMonth(today.day)), 7, 0))

key0_raw(today) ==
    Add(Add(Big(2 * today.year),
            MulAdd(IntPow(today.month, ExpMonth(today.day)), 7, 0)),
        IntPow(today.day, ExpDay(today.day)))

\* line 45 with key0_raw left out of the base: 1 - month
Key1Base_without_key0(k0, month) == IntSub(Big(1), Big(month))

\* key0_raw + 1 - month, the base of the power ** 0.8
Key1Base(k0, month) == IntSub(Add(k0, Big(1)), Big(month))

\* str(key1_raw), key1_raw = round(base ** 0.8): a term over the exact base
key1_raw(base) == "round(" \o StrInt(base) \o "**0.8)"

\* What base ** 0.8 is: complex for a negative base (Python 3), 0.0 for 0,
\* and at least 1.0 for a base of at least 1, which rounds to an int >= 1.
Key1Sign(base) ==
    IF base.neg THEN "complex"
    ELSE IF base.mag = <<>> THEN "zero"
    ELSE "positive"

\* str(key2_raw): a term over the exact product, key1_raw and 2 ** month
key2_raw(k0, k1, today) ==
    "round(" \o StrInt(IntMul(k0, today.month + today.year - today.day * 2))
        \o "+" \o k1 \o "**0.5-" \o Str(IntPow(2, today.month)) \o ")"

\* str(key3_raw)
key3_raw(k0, k1, k2, today) ==
    "round(((" \o k1 \o "+" \o k2 \o ")/2+(" \o k1 \o "/" \o Str(k0) \o ")**"
        \o Str(Big(today.day + ((today.month % 3) % 2)))
        \o ")*" \o Str(Big(today.month)) \o "**3.14)"

\* The exception the arithmetic of lines 38-49 raises, "none" if it
\* returns.  A negative base makes ** 0.8 complex and round() raise
\* TypeError; key0_raw = 0 makes key1_raw / key0_raw raise
\* ZeroDivisionError; an int too large for a double raises OverflowError.
ArithmeticError(k0, base, today) ==
    IF ~FloatOK(base.mag) THEN "OverflowError"
    ELSE IF base.neg THEN "TypeError"
    ELSE IF ~FloatOK(IntMul(k0, today.month + today.year - today.day * 2).mag)
    THEN "OverflowError"
    ELSE IF k0 = <<>> THEN "ZeroDivisionError"
    ELSE "none"

\* the locals of one call of generate_keys, up to line 57
Locals(today) ==
    LET k0   == key0_raw(today)
        base == Key1Base(k0, today.month)
        k1   == key1_raw(base)
        k2   == key2_raw(k0, k1, today)
        k3   == key3_raw(k0, k1, k2, today)
        \* line 39: bound to a local that nothing reads
        hashed_seed == Sha256Hex(Str(raw_seed(today)))
    IN  [ exp_month |-> ExpMonth(today.day),
          exp_day   |-> ExpDay(today.day),
          key0_raw  |-> k0,
          base1     |-> base,
          key1_raw  |-> k1,
          key1_sign |-> Key1Sign(base),
          key2_raw  |-> k2,
          key3_raw  |-> k3,
          error     |-> ArithmeticError(k0, base, today),
          keys      |-> << Sha256Hex(Str(k0)), Sha256Hex(k1),
                           Sha256Hex(k2), Sha256Hex(k3) >> ]

\* line 62 hashing key0 + key2
SharedKey_wrong_element(keys) == Sha256Hex(keys[1] \o keys[3])

\* shared_key of line 62
SharedKey(keys) == Sha256Hex(keys[1] \o keys[2])

\* lines 59-65 with an else branch that falls back to normal mode
Return_lenient(L, mode) ==
    IF L.error # "none"
    THEN [raised |-> L.error, keys |-> <<>>, key |-> ""]
    ELSE IF mode = "shared"
    THEN [raised |-> "none", keys |-> <<>>, key |-> SharedKey(L.keys)]
    ELSE [raised |-> "none", keys |-> L.keys, key |-> ""]

\* lines 57-63 with keys kept across calls: shared mode appends its digest
\* to the list that later normal calls return
Return_shared_list(L, mode) ==
    IF L.error # "none"
    THEN [raised |-> L.error, keys |-> <<>>, key |-> ""]
    ELSE IF mode = "normal"
    THEN [raised |-> "none",
          keys |-> IF first["shared"].mode = "shared"
                   THEN Append(L.keys, SharedKey(L.keys)) ELSE L.keys,
          key |-> ""]
    ELSE IF mode = "shared"
    THEN [raised |-> "none", keys |-> <<>>, key |-> SharedKey(L.keys)]
    ELSE [raised |-> "ValueError", keys |-> <<>>, key |-> ""]

\* Lines 59-65, with the exception the arithmetic before them raised:
\* raised names the exception ("none" when the call returns), keys is the
\* list of normal mode, key the string of shared mode.
Return(L, mode) ==
    IF L.error # "none"
    THEN [raised |-> L.error, keys |-> <<>>, key |-> ""]
    ELSE IF mode = "normal"
    THEN [raised |-> "none", keys |-> L.keys, key |-> ""]
    ELSE IF mode = "shared"
    THEN [raised |-> "none", keys |-> <<>>, key |-> SharedKey(L.keys)]
    ELSE [raised |-> "ValueError", keys |-> <<>>, key |-> ""]

\* one call, on the date today that line 32 read from the clock
generate_keys(today, mode) == Return(Locals(today), mode)

(***************************************************************************)
(* datetime.date.today(): the host calendar                                *)
(***************************************************************************)
NumYears == 1

Years == 2024 .. (2024 + NumYears - 1)

IsLeap(y) == (y % 4 = 0 /\ y % 100 # 0) \/ y % 400 = 0

DaysInMonth(y, m) ==
    IF m = 2 THEN (IF IsLeap(y) THEN 29 ELSE 28)
    ELSE IF m \in {4, 6, 9, 11} THEN 30
    ELSE 31

Dates == { d \in [year : Years, month : 1 .. 12, day : 1 .. 31] :
             d.day <= DaysInMonth(d.year, d.month) }

\* the date the clock shows after the next local midnight
NextDay(d) ==
    IF d.day < DaysInMonth(d.year, d.month)
    THEN [d EXCEPT !.day = d.day + 1]
    ELSE IF d.month < 12
    THEN [d EXCEPT !.month = d.month + 1, !.day = 1]
    ELSE [year |-> d.year + 1, month |-> 1, day |-> 1]

MaxDays == 1

NoDate == [year |-> 0, month |-> 0, day |-> 0]
NoReturn == [raised |-> "none", keys |-> <<>>, key |-> ""]
NoCall == [mode |-> "none", today |-> NoDate, again |-> FALSE, ret |-> NoReturn]
NoLocals == [exp_month |-> 0, exp_day |-> 0, key0_raw |-> <<>>,
             base1 |-> [neg |-> FALSE, mag |-> <<>>], key1_raw |-> "",
             key1_sign |-> "zero", key2_raw |-> "", key3_raw |-> "", error |-> "none",
             keys |-> <<>>]

\* the modes callers pass: the two supported ones and an unsupported one
Modes == {"normal", "shared", "Normal"}

DeriveIdle ==
    /\ call = NoCall
    /\ locals = NoLocals
    /\ first = [m \in Modes |-> NoCall]
    /\ issued = NoCall

PromptIdle ==
    /\ pc = "idle"
    /\ user_key = ""
    /\ normal_keys = <<>>
    /\ shared_key = ""
    /\ normal_today = NoDate
    /\ shared_today = NoDate
    /\ tier = "none"
    /\ model_type = "none"

ChatIdle ==
    /\ history = <<>>
    /\ chat_pc = "idle"
    /\ response = <<>>
    /\ collected_chunks = <<>>
    /\ before = <<>>
    /\ outcome = "none"
    /\ turns = 0

(***************************************************************************)
(* The host clock                                                          *)
(***************************************************************************)
\* local midnight passes
Midnight ==
    /\ days < MaxDays
    /\ clock' = NextDay(clock)
    /\ days' = days + 1
    /\ issued' = first["normal"]
    /\ first' = [m \in Modes |-> NoCall]
    /\ UNCHANGED <<call, locals, promptVars, chatVars>>

(***************************************************************************)
(* generate_keys called directly, on the date the clock shows              *)
(***************************************************************************)
\* L is Locals(clock): the body of the call up to line 57
Call(mode, L) ==
    LET c == [mode |-> mode, today |-> clock, again |-> first[mode] # NoCall,
              ret |-> Return(L, mode)]
    IN  /\ call' = c
        /\ locals' = L
        /\ first' = IF first[mode] = NoCall THEN [first EXCEPT ![mode] = c]
                    ELSE first
        /\ UNCHANGED <<clock, days, issued, promptVars, chatVars>>

InitDerive ==
    /\ clock \in Dates
    /\ days = 0
    /\ DeriveIdle
    /\ PromptIdle
    /\ ChatIdle

NextDerive ==
    \/ Midnight
    \/ LET L == Locals(clock)
       IN  \E mode \in Modes : Call(mode, L)

SpecDerive == InitDerive /\ [][NextDerive]_vars

(***************************************************************************)
(* CLIInterface.prompt_for_key, one line at a time under the clock         *)
(***************************************************************************)
\* line 140 comparing with the first key only
InList_first_only(x, list) == Len(list) > 0 /\ list[1] = x

\* user_key in normal_keys (line 140)
InList(x, list) == \E i \in 1 .. Len(list) : list[i] = x

\* lines 140-146 with the shared key answered like a normal key
prompt_outcome_one_model(key, normal, shared) ==
    IF InList(key, normal) THEN "gpt-3.5-turbo"
    ELSE IF key = shared THEN "gpt-3.5-turbo"
    ELSE "Incorrect Key!"

\* lines 140-146 with an else branch that returns the default model
prompt_outcome_fail_open(key, normal, shared) ==
    IF InList(key, normal) THEN "gpt-3.5-turbo"
    ELSE IF key = shared THEN "gpt-4o-mini"
    ELSE "gpt-3.5-turbo"

\* lines 140-146: the model returned, or the message of the else branch
prompt_outcome(key, normal, shared) ==
    IF InList(key, normal) THEN "gpt-3.5-turbo"
    ELSE IF key = shared THEN "gpt-4o-mini"
    ELSE "Incorrect Key!"

\* the access tier an outcome of prompt_for_key stands for
TierOf(o) ==
    IF o = "gpt-3.5-turbo" THEN "Standard"
    ELSE IF o = "gpt-4o-mini" THEN "Elevated"
    ELSE "Rejected"

\* What the user may type at "Key: " when the clock shows today: a token
\* issued for today, the shared token of tomorrow (a digest no call
\* returns today), or no token at all.
Candidates(today) ==
    LET L == Locals(today)
        n == Return(L, "normal").keys
    IN  { n[i] : i \in 1 .. Len(n) }
            \cup { Return(L, "shared").key,
                   generate_keys(NextDay(today), "shared").key,
                   "", "not-a-real-key" }

\* line 136
Input(c) ==
    /\ pc = "input"
    /\ user_key' = c
    /\ pc' = "gen_normal"
    /\ UNCHANGED <<clock, days, deriveVars, chatVars, normal_keys, shared_key,
                   normal_today, shared_today, tier, model_type>>

\* line 137; an exception of the call leaves prompt_for_key and main
GenNormal ==
    /\ pc = "gen_normal"
    /\ LET r == generate_keys(clock, "normal")
       IN  IF r.raised = "none"
           THEN /\ normal_keys' = r.keys
                /\ normal_today' = clock
                /\ pc' = "gen_shared"
           ELSE /\ pc' = "raised"
                /\ UNCHANGED <<normal_keys, normal_today>>
    /\ UNCHANGED <<clock, days, deriveVars, chatVars, user_key, shared_key,
                   shared_today, tier, model_type>>

\* line 138
GenShared ==
    /\ pc = "gen_shared"
    /\ LET r == generate_keys(clock, "shared")
       IN  IF r.raised = "none"
           THEN /\ shared_key' = r.key
                /\ shared_today' = clock
                /\ pc' = "compare"
           ELSE /\ pc' = "raised"
                /\ UNCHANGED <<shared_key, shared_today>>
    /\ UNCHANGED <<clock, days, deriveVars, chatVars, user_key, normal_keys,
                   normal_today, tier, model_type>>

\* lines 140-146
Compare ==
    /\ pc = "compare"
    /\ LET o == prompt_outcome(user_key, normal_keys, shared_key)
       IN  /\ tier' = TierOf(o)
           /\ model_type' = IF o = "Incorrect Key!" THEN "none" ELSE o
           /\ pc' = IF o = "Incorrect Key!" THEN "incorrect" ELSE "return"
    /\ UNCHANGED <<clock, days, deriveVars, chatVars, user_key, normal_keys,
                   shared_key, normal_today, shared_today>>

\* Line 135 after "Incorrect Key!": the next iteration.  Its locals are
\* assigned before they are read, so the old values are dropped here.
Again ==
    /\ pc = "incorrect"
    /\ pc' = "input"
    /\ user_key' = ""
    /\ normal_keys' = <<>>
    /\ shared_key' = ""
    /\ normal_today' = NoDate
    /\ shared_today' = NoDate
    /\ tier' = "none"
    /\ UNCHANGED <<clock, days, deriveVars, chatVars, model_type>>

Init ==
    /\ clock \in Dates
    /\ days = 0
    /\ DeriveIdle
    /\ ChatIdle
    /\ pc = "input"
    /\ user_key = ""
    /\ normal_keys = <<>>
    /\ shared_key = ""
    /\ normal_today = NoDate
    /\ shared_today = NoDate
    /\ tier = "none"
    /\ model_type = "none"

Next ==
    \/ Midnight
    \/ \E c \in Candidates(clock) : Input(c)
    \/ GenNormal
    \/ GenShared
    \/ Compare
    \/ Again

Spec == Init /\ [][Next]_vars

(***************************************************************************)
(* AstraGPTClient.chat under the loop of main                              *)
(* A string is a sequence of characters here, so that strip() and lower()  *)
(* act on it.                                                              *)
(***************************************************************************)
MaxTurns == 2
MaxChunks == 2

\* self.prompt
Prompt == <<"A", "s", "t", "r", "a">>

\* what the user may type at "You > "
Lines == { <<"/", "q", "u", "i", "t">>, <<" ", "/", "Q", "u", "i", "t">>,
           <<>>, <<" ", " ">>, <<"h", "i">>, <<" ", "H", "i", " ">> }

\* str.strip()
RECURSIVE LStrip(_)
LStrip(t) == IF t # <<>> /\ Head(t) = " " THEN LStrip(Tail(t)) ELSE t

RECURSIVE RStrip(_)
RStrip(t) ==
    IF t # <<>> /\ t[Len(t)] = " " THEN RStrip(SubSeq(t, 1, Len(t) - 1)) ELSE t

Strip(t) == RStrip(LStrip(t))

\* str.lower() on the characters that occur
LowerChar(ch) ==
    IF ch = "Q" THEN "q" ELSE IF ch = "H" THEN "h" ELSE ch

Lower(t) == [i \in 1 .. Len(t) |-> LowerChar(t[i])]

\* chunk.choices[0].delta.content: None or a string
NoneChunk == [is_none |-> TRUE, content |-> <<>>]
Chunks == { NoneChunk, [is_none |-> FALSE, content |-> <<"o", "k">>] }

\* the streams the server may answer with
RECURSIVE StreamsOf(_)
StreamsOf(n) ==
    IF n = 0 THEN { <<>> }
    ELSE LET shorter == StreamsOf(n - 1)
         IN  shorter \cup { Append(t, c) : t \in shorter, c \in Chunks }

\* lines 104-105
display_chunk(chunk) == IF chunk.is_none THEN <<>> ELSE chunk.content

\* ''.join(collected_chunks)
RECURSIVE Join(_)
Join(chunks) == IF chunks = <<>> THEN <<>> ELSE Head(chunks) \o Join(Tail(chunks))

\* line 81
InitialHistory == << [role |-> "system", content |-> Prompt] >>

\* lines 89-90 with the message put in front of the history
AppendUser_in_front(h, user_input) ==
    <<[role |-> "user", content |-> user_input]>> \o h

\* lines 89-90
AppendUser(h, user_input) == Append(h, [role |-> "user", content |-> user_input])

\* lines 110-112
AppendAssistant(h, chunks) ==
    Append(h, [role |-> "assistant", content |-> Join(chunks)])

\* Lines 167-174 and 89-90: a line is read; "/quit" leaves the loop, an
\* empty line is skipped, any other line starts chat(), which appends the
\* user message before it asks the server.
ReadLine(line) ==
    /\ chat_pc = "input"
    /\ LET user_input == Strip(line)
       IN  IF Lower(user_input) = <<"/", "q", "u", "i", "t">>
           THEN /\ chat_pc' = "quit"
                /\ UNCHANGED <<history, before, outcome, turns, collected_chunks>>
           ELSE IF user_input = <<>>
           THEN UNCHANGED <<chat_pc, history, before, outcome, turns,
                            collected_chunks>>
           ELSE /\ turns < MaxTurns
                /\ history' = AppendUser(history, user_input)
                /\ before' = history
                /\ outcome' = "running"
                /\ turns' = turns + 1
                /\ collected_chunks' = <<>>
                /\ chat_pc' = "create"
    /\ UNCHANGED <<clock, days, deriveVars, promptVars, response>>

\* lines 93-101: the request is accepted and a stream returned
Create(stream) ==
    /\ chat_pc = "create"
    /\ response' = stream
    /\ chat_pc' = "stream"
    /\ UNCHANGED <<clock, days, deriveVars, promptVars, history,
                   collected_chunks, before, outcome, turns>>

\* lines 93 and 175-177: the request raises; main prints the error
CreateFails ==
    /\ chat_pc = "create"
    /\ outcome' = "failed"
    /\ chat_pc' = "input"
    /\ UNCHANGED <<clock, days, deriveVars, promptVars, history, response,
                   collected_chunks, before, turns>>

\* lines 103-107: one chunk
StreamChunk ==
    /\ chat_pc = "stream"
    /\ response # <<>>
    /\ collected_chunks' = Append(collected_chunks, display_chunk(Head(response)))
    /\ response' = Tail(response)
    /\ UNCHANGED <<clock, days, deriveVars, promptVars, history, chat_pc,
                   before, outcome, turns>>

\* lines 103 and 175-177: the stream raises; the chunks collected are lost
StreamFails ==
    /\ chat_pc = "stream"
    /\ outcome' = "failed"
    /\ chat_pc' = "input"
    /\ response' = <<>>
    /\ UNCHANGED <<clock, days, deriveVars, promptVars, history,
                   collected_chunks, before, turns>>

\* lines 109-112: the stream ends
StreamEnd ==
    /\ chat_pc = "stream"
    /\ response = <<>>
    /\ history' = AppendAssistant(history, collected_chunks)
    /\ outcome' = "completed"
    /\ chat_pc' = "input"
    /\ UNCHANGED <<clock, days, deriveVars, promptVars, response,
                   collected_chunks, before, turns>>

\* after lines 158-163: a key was accepted and the client constructed
InitChat ==
    /\ clock \in { d \in Dates : d.month = 3 /\ d.day = 15 }
    /\ days = 0
    /\ DeriveIdle
    /\ pc = "return"
    /\ user_key = ""
    /\ normal_keys = <<>>
    /\ shared_key = ""
    /\ normal_today = NoDate
    /\ shared_today = NoDate
    /\ tier \in {"Standard", "Elevated"}
    /\ model_type = IF tier = "Standard" THEN "gpt-3.5-turbo" ELSE "gpt-4o-mini"
    /\ history = InitialHistory
    /\ chat_pc = "input"
    /\ response = <<>>
    /\ collected_chunks = <<>>
    /\ before = <<>>
    /\ outcome = "none"
    /\ turns = 0

NextChat ==
    \/ \E line \in Lines : ReadLine(line)
    \/ \E stream \in StreamsOf(MaxChunks) : Create(stream)
    \/ CreateFails
    \/ StreamChunk
    \/ StreamFails
    \/ StreamEnd

SpecChat == InitChat /\ [][NextChat]_vars

(***************************************************************************)
(* Properties of generate_keys, under SpecDerive                           *)
(***************************************************************************)
Supported == {"normal", "shared"}

\* C5: shared mode returns the hash of the concatenation of the hex digests
\* key0 and key1, which are elements 0 and 1 of what normal mode returns on
\* the same date, and not the hash of the concatenated decimal strings of
\* key0_raw and key1_raw; normal mode returns [key0, key1, key2, key3] in
\* that order.
C5_SharedIsDigestOfDigests ==
    /\ call.mode = "shared" =>
         /\ call.ret.key = Sha256Hex(Sha256Hex(Str(locals.key0_raw))
                                       \o Sha256Hex(locals.key1_raw))
         /\ call.ret.key # Sha256Hex(Str(locals.key0_raw) \o locals.key1_raw)
         /\ (first["normal"].mode = "normal"
                /\ first["normal"].today = call.today) =>
              call.ret.key = Sha256Hex(first["normal"].ret.keys[1]
                                         \o first["normal"].ret.keys[2])
    /\ call.mode = "normal" =>
         call.ret.keys = << Sha256Hex(Str(locals.key0_raw)),
                            Sha256Hex(locals.key1_raw),
                            Sha256Hex(locals.key2_raw),
                            Sha256Hex(locals.key3_raw) >>

\* a shared call after a normal call on the same date
C5_Witness ==
    /\ call.mode = "shared"
    /\ first["normal"].mode = "normal"
    /\ first["normal"].today = call.today
    /\ call.ret.key = Sha256Hex(first["normal"].ret.keys[1]
                                  \o first["normal"].ret.keys[2])

\* C6: a call with a mode outside {normal, shared} raises ValueError and
\* returns no digest, on every date; a call with normal or shared never
\* raises ValueError.
C6_InvalidMode ==
    call.mode # "none" =>
        IF call.mode \in Supported
        THEN call.ret.raised # "ValueError"
        ELSE call.ret = [raised |-> "ValueError", keys |-> <<>>, key |-> ""]

C6_Witness ==
    /\ call.mode = "Normal"
    /\ call.ret.raised = "ValueError"
    /\ first["normal"].mode = "normal"

C8_DayRollover ==
    (call.mode = "normal" /\ issued.mode = "normal"
        /\ call.today = NextDay(issued.today)) =>
        /\ call.ret.keys # issued.ret.keys
        /\ call.ret.keys[1] # issued.ret.keys[1]

\* the tokens of 31 December and of 1 January of the next year
C8_Witness ==
    /\ call.mode = "normal"
    /\ issued.mode = "normal"
    /\ issued.today.month = 12 /\ issued.today.day = 31
    /\ call.today = [year |-> issued.today.year + 1, month |-> 1, day |-> 1]
    /\ call.ret.keys # issued.ret.keys

\* C9: on every date the arithmetic is defined: the exponents of the int
\* powers of key0_raw are non-negative, key0_raw >= 1, key0_raw + 1 - month
\* is positive, key1_raw is non-negative, and a call with a supported mode
\* returns without raising.
C9_ArithmeticDefined ==
    call.mode # "none" =>
        /\ locals.exp_month >= 0
        /\ locals.exp_day >= 0
        /\ locals.key0_raw # <<>>
        /\ IsPositive(locals.base1)
        /\ locals.key1_sign \in {"zero", "positive"}
        /\ locals.error = "none"
        /\ call.mode \in Supported => call.ret.raised = "none"

\* the largest exponents: 31 December
C9_Witness ==
    /\ call.mode = "normal"
    /\ call.today.month = 12 /\ call.today.day = 31
    /\ locals.exp_month = 12 /\ locals.exp_day = 17
    /\ Len(call.ret.keys) = 4

(***************************************************************************)
(* Properties of prompt_for_key, under Spec                                *)
(***************************************************************************)
\* a comparison was made: prompt_for_key returned or printed "Incorrect Key!"
Compared == pc \in {"return", "incorrect"}

\* C1: when both calls of a validation read the same date D, a candidate
\* equal to any of the 4 normal digests of D is classified Standard and
\* gpt-3.5-turbo is returned, and a candidate equal to the shared digest of
\* D is classified Elevated and gpt-4o-mini is returned.
C1_RoundTrip ==
    (Compared /\ normal_today = shared_today) =>
        LET n == generate_keys(normal_today, "normal").keys
            s == generate_keys(normal_today, "shared").key
        IN  /\ \A i \in 0 .. 3 :
                 user_key = n[i + 1] =>
                     tier = "Standard" /\ model_type = "gpt-3.5-turbo"
            /\ user_key = s =>
                 tier = "Elevated" /\ model_type = "gpt-4o-mini"

\* the last normal digest of a date, typed and validated on that date
C1_Witness ==
    /\ pc = "return"
    /\ normal_today = clock /\ shared_today = clock
    /\ user_key = generate_keys(clock, "normal").keys[4]
    /\ model_type = "gpt-3.5-turbo"

\* C2: the normal digests and the shared digest a validation compares the
\* candidate with are derived from the same date.
C2_SameToday == pc \in {"compare", "return", "incorrect"} => normal_today = shared_today

\* C3: every candidate is classified Standard if it is one of the 4 normal
\* digests derived, otherwise Elevated if it is the shared digest derived,
\* otherwise Rejected; the model returned is the tier's.
C3_Priority ==
    Compared =>
        LET n == generate_keys(normal_today, "normal").keys
            s == generate_keys(shared_today, "shared").key
            member == \E i \in 1 .. 4 : n[i] = user_key
        IN  /\ Len(n) = 4
            /\ tier = IF member THEN "Standard"
                      ELSE IF user_key = s THEN "Elevated"
                      ELSE "Rejected"
            /\ model_type = IF tier = "Standard" THEN "gpt-3.5-turbo"
                            ELSE IF tier = "Elevated" THEN "gpt-4o-mini"
                            ELSE "none"

\* the shared digest of the date is accepted as Elevated
C3_Witness ==
    /\ pc = "return"
    /\ tier = "Elevated"
    /\ user_key = shared_key
    /\ ~InList(user_key, normal_keys)
    /\ model_type = "gpt-4o-mini"

\* C4: a validation raises nothing; a candidate equal to none of the five
\* digests derived, the empty string included, is classified Rejected, and
\* a Rejected candidate selects no model.
C4_RejectedNotAnError ==
    /\ pc # "raised"
    /\ (Compared /\ ~InList(user_key, normal_keys) /\ user_key # shared_key) =>
           tier = "Rejected"
    /\ tier = "Rejected" => (pc = "incorrect" /\ model_type = "none")
    /\ model_type # "none" => pc = "return"

\* the empty string is rejected
C4_Witness ==
    /\ pc = "incorrect"
    /\ user_key = ""
    /\ tier = "Rejected"
    /\ Len(normal_keys) = 4
    /\ model_type = "none"

(***************************************************************************)
(* Properties of the conversation history, under SpecChat                  *)
(***************************************************************************)
IsPrefix(a, b) == Len(a) <= Len(b) /\ SubSeq(b, 1, Len(a)) = a

\* the system prompt first and only there; a user message before every
\* assistant message
WellFormed(h) ==
    /\ Len(h) >= 1
    /\ h[1] = [role |-> "system", content |-> Prompt]
    /\ \A i \in 2 .. Len(h) :
         /\ h[i].role \in {"user", "assistant"}
         /\ h[i].role = "assistant" => h[i - 1].role = "user"

\* C10: the history only grows, starts with the one system prompt, has a
\* user message right before every assistant message; a completed chat
\* call has appended one user message and one assistant message, a failed
\* one its user message alone.
C10_History ==
    /\ [](/\ WellFormed(history)
          /\ outcome = "completed" =>
               /\ Len(history) = Len(before) + 2
               /\ IsPrefix(before, history)
               /\ history[Len(before) + 1].role = "user"
               /\ history[Len(before) + 2].role = "assistant"
          /\ outcome = "failed" =>
               /\ Len(history) = Len(before) + 1
               /\ IsPrefix(before, history)
               /\ history[Len(before) + 1].role = "user")
    /\ [][IsPrefix(history, history')]_vars

\* a completed call followed by a call that failed while streaming
C10_Witness ==
    /\ outcome = "failed"
    /\ chat_pc = "input"
    /\ collected_chunks # <<>>
    /\ Len(history) = 4
    /\ history[3].role = "assistant"
    /\ history[4].role = "user"
====
